---- MODULE Spec2Model ----
(***************************************************************************)
(* Voting engine of flask_commentease (VoteSet / Vote) as a state machine. *)
(*                                                                         *)
(* One VoteSet row and its Vote rows live in a shared store.  Each         *)
(* session (request worker) calls vote / cancelvote / recount, which reads *)
(* the store and leaves a unit of work in the session; commit flushes the  *)
(* unit of work: the SQL expressions assigned to count and score are       *)
(* evaluated by the store at that moment.  A VoteSet whose id is None      *)
(* lives in the memory of one session only: its attributes are plain       *)
(* Python values that the calls overwrite at once.                         *)
(*                                                                         *)
(* Comment tree engine (Comment / CommentSet) and the two view handlers    *)
(* (comment_action, vote_action): the comments of the store with their     *)
(* reply_to links, the counters of each CommentSet, and one action per     *)
(* handler, each ending with the commit of its session.                    *)
(***************************************************************************)
EXTENDS Integers, Sequences, FiniteSets, Bags

\* ---------------------------------------------------------------- bounds
NumUsers == 2
MaxCalls == 3
MaxComments == 3
MaxEdits == 1

\* ------------------------------------------------------------- constants
UP_ONLY == 1
UP_DOWN == 2
RANGE   == 3
CUSTOM  == 4

PUBLIC  == 2
DELETED == 6
StatusDefault == 0

\* A nullable value: None is the empty tuple, the integer n is <<n>>.
None    == << >>
Some(n) == <<n>>
Val(x)  == x[1]

Users    == 1 .. NumUsers
Workers  == {"w1", "w2"}
Patterns == {UP_ONLY, UP_DOWN, RANGE, CUSTOM}

VARIABLES
    id,        \* VoteSet.id: None until the VoteSet is persisted
    pattern,   \* VoteSet.pattern
    min,       \* VoteSet.min
    max,       \* VoteSet.max
    count,     \* VoteSet.count
    score,     \* VoteSet.score (nullable in memory)
    votes,     \* the Vote rows of this VoteSet (self.votes), as a bag
    sessions,  \* the workers that have a session on the store
    pc,        \* per worker: "idle" or "pending" (a unit of work awaits commit)
    uow,       \* per worker: the unit of work the call left in the session
    result,    \* per worker: outcome of the last call or commit
    ncalls,    \* number of calls made so far
    overlap    \* history: some call started while another session was pending

VARIABLES
    comments,    \* the Comment rows of the store, by Comment.id
    commentsets, \* per CommentSet: count, count_toplevel, count_replies
    lastid,      \* the last Comment.id the store gave out
    clock,       \* datetime.utcnow(), as the number of edits made so far
    flashed,     \* the outcome of the last call: what it flashed or raised
    removed,     \* how many Comment rows the last call deleted from the store
    txn          \* per worker: the comment request whose changes await commit

commentVars == <<comments, commentsets, lastid, clock, flashed, removed, txn>>

voteVars == <<id, pattern, min, max, count, score, votes, sessions, pc, uow,
              result, ncalls, overlap>>

vars == <<id, pattern, min, max, count, score, votes, sessions, pc, uow,
          result, ncalls, overlap, comments, commentsets, lastid, clock,
          flashed, removed, txn>>

config == <<pattern, min, max, sessions>>

\* The payloads a caller may pass: null, and the integers around [min, max]
\* (+1 and -1 among them).
VoteInts == (min - 2) .. (max + 1)
VoteData == {None} \cup {Some(n) : n \in VoteInts}

\* ------------------------------------------------------- SQL expressions
\* A value assigned to a column attribute: left alone, a literal, or an
\* expression "current column value + n" that the store evaluates at flush.
Keep       == [kind |-> "keep", n |-> 0, v |-> None]
Literal(x) == [kind |-> "lit",  n |-> 0, v |-> x]

\* Faulty variant: the column is read when the call runs and written back as a value.
SelectPlus_rmw(col, n) ==
    [kind |-> "lit", n |-> 0,
     v |-> Some((IF col = "count" THEN count ELSE Val(score)) + n)]

\* select([column]).where(id == self.id).as_scalar() + n
SelectPlus(col, n) == [kind |-> "rel", n |-> n, v |-> None]

\* self.__table__.c.<column> - n
ColumnMinus(col, n) == [kind |-> "rel", n |-> 0 - n, v |-> None]

\* The store evaluates an assigned expression against the current row.
Eval(e, cur) ==
    CASE e.kind = "keep" -> cur
      [] e.kind = "lit"  -> e.v
      [] e.kind = "rel"  -> Some(Val(cur) + e.n)

\* ------------------------------------------------------------ vote rows
Row(user, data) == [user |-> user, data |-> data]

Rows == BagToSet(votes)

HasRow(user) == \E r \in Rows : r.user = user

RowOf(user) == CHOOSE r \in Rows : r.user = user

\* Vote.query.get((user.id, self.id)): no row has a null voteset_id.
getvote(user) ==
    IF id = None THEN None
    ELSE IF HasRow(user) THEN Some(RowOf(user)) ELSE None

\* len(self.votes)
NumVotes == BagCardinality(votes)

\* sum([v.data for v in self.votes]), all data being integers
RECURSIVE SumRows(_)
SumRows(S) ==
    IF S = {} THEN 0
    ELSE LET r == CHOOSE x \in S : TRUE
         IN  votes[r] * Val(r.data) + SumRows(S \ {r})

SumData == SumRows(Rows)

Without(b, user) == [r \in {x \in DOMAIN b : x.user # user} |-> b[r]]

With(b, user, data) == b (+) SetToBag({Row(user, data)})

\* --------------------------------------------------------- units of work
NoWork == [op |-> "none", seen |-> None,
           raise |-> "", insert |-> FALSE, update |-> FALSE, delete |-> FALSE,
           user |-> 0, data |-> None, count |-> Keep, score |-> Keep]

Raise(err) == [NoWork EXCEPT !.raise = err]

\* ------------------------------------------------------- VoteSet.vote
\* The first vote of a user: a new Vote row, count + 1 and score + delta as
\* SQL expressions when the VoteSet has an id, plain values when it has none.
FirstVote(data, delta) ==
    [NoWork EXCEPT !.insert = TRUE,
        !.count = IF id # None THEN SelectPlus("count", 1) ELSE Literal(Some(1)),
        !.score = IF id # None THEN SelectPlus("score", delta) ELSE Literal(data)]

\* vote.data = data on an existing row
Revote(scoreExpr) == [NoWork EXCEPT !.update = TRUE, !.score = scoreExpr]

vote_UP_ONLY(user, data, v) ==
    IF data # None THEN Raise("ValueError")
    ELSE IF v = None THEN FirstVote(None, 1)
    ELSE NoWork

\* Faulty variant: the revote adds the new value once.
UpDownRevoteScore_once(data) ==
    IF id # None THEN SelectPlus("score", Val(data)) ELSE Literal(data)

UpDownRevoteScore(data) ==
    IF id # None THEN SelectPlus("score", Val(data) * 2) ELSE Literal(data)

\* Faulty variant: the revote branch does not compare data with vote.data.
vote_UP_DOWN_unchecked(user, data, v) ==
    IF data \notin {Some(1), Some(0 - 1)} THEN Raise("ValueError")
    ELSE IF v = None THEN FirstVote(data, Val(data))
    ELSE Revote(UpDownRevoteScore(data))

vote_UP_DOWN(user, data, v) ==
    IF data \notin {Some(1), Some(0 - 1)} THEN Raise("ValueError")
    ELSE IF v = None THEN FirstVote(data, Val(data))
    ELSE IF data # Val(v).data THEN Revote(UpDownRevoteScore(data))
    ELSE NoWork

\* The condition under which the RANGE branch raises ValueError.
RangeRaises(data) == min <= Val(data) /\ Val(data) <= max

vote_RANGE(user, data, v) ==
    IF RangeRaises(data) THEN Raise("ValueError")
    ELSE IF v = None THEN FirstVote(data, Val(data))
    ELSE IF data # Val(v).data
         THEN Revote(SelectPlus("score", Val(data) - Val(Val(v).data)))
    ELSE NoWork

\* Faulty variant: the first vote also counts into score.
vote_CUSTOM_scored(user, data, v) ==
    IF v = None THEN FirstVote(data, 1)
    ELSE IF data # Val(v).data THEN Revote(Keep)
    ELSE NoWork

vote_CUSTOM(user, data, v) ==
    IF v = None
    THEN [FirstVote(data, 0) EXCEPT !.score = Keep]
    ELSE IF data # Val(v).data THEN Revote(Keep)
    ELSE NoWork

VoteWork(user, data, v) ==
    CASE pattern = UP_ONLY -> vote_UP_ONLY(user, data, v)
      [] pattern = UP_DOWN -> vote_UP_DOWN(user, data, v)
      [] pattern = RANGE   -> vote_RANGE(user, data, v)
      [] pattern = CUSTOM  -> vote_CUSTOM(user, data, v)
      [] OTHER             -> Raise("ValueError")

\* ------------------------------------------------- VoteSet.cancelvote
\* Faulty variant: every pattern is handled as UP_ONLY.
CancelScore_one(v) ==
    IF pattern = CUSTOM THEN Keep ELSE ColumnMinus("score", 1)

CancelScore(v) ==
    CASE pattern = UP_ONLY             -> ColumnMinus("score", 1)
      [] pattern \in {UP_DOWN, RANGE}  -> ColumnMinus("score", Val(Val(v).data))
      [] pattern = CUSTOM              -> Keep

CancelWork(user, v) ==
    IF v = None THEN NoWork
    ELSE IF pattern \notin Patterns THEN Raise("ValueError")
    ELSE [NoWork EXCEPT !.delete = TRUE,
                        !.count = ColumnMinus("count", 1),
                        !.score = CancelScore(v)]

\* ---------------------------------------------------- VoteSet.recount
\* sum() over the data of the rows raises TypeError when a row's data is None;
\* count has been assigned by then.
RecountScore ==
    IF pattern = CUSTOM THEN Keep ELSE Literal(Some(SumData))

RecountWork ==
    IF pattern # CUSTOM /\ \E r \in Rows : r.data = None
    THEN [Raise("TypeError") EXCEPT !.count = Literal(Some(NumVotes))]
    ELSE [NoWork EXCEPT !.count = Literal(Some(NumVotes)),
                        !.score = RecountScore]

\* ------------------------------------------------------ the session
\* Rows after the unit of work's INSERT / UPDATE / DELETE.
RowsAfter(w, user, data) ==
    IF w.insert THEN With(votes, user, data)
    ELSE IF w.update THEN With(Without(votes, user), user, data)
    ELSE IF w.delete THEN Without(votes, user)
    ELSE votes

\* A call op(user, data) made by session s, whose lookup saw row v: on a
\* VoteSet without id the assignments act on
\* the object in memory at once; otherwise they wait in the session for the
\* flush, and a raised exception abandons them.
Run(s, op, user, data, v, w) ==
    /\ ncalls' = ncalls + 1
    /\ overlap' = (overlap \/ \E o \in sessions \ {s} : pc[o] = "pending")
    /\ IF id = None
       THEN /\ count' = Val(Eval(w.count, Some(count)))
            /\ score' = Eval(w.score, score)
            /\ votes' = RowsAfter(w, user, data)
            /\ result' = [result EXCEPT ![s] = IF w.raise # "" THEN w.raise ELSE "ok"]
            /\ UNCHANGED <<pc, uow>>
       ELSE IF w.raise # ""
       THEN /\ result' = [result EXCEPT ![s] = w.raise]
            /\ UNCHANGED <<count, score, votes, pc, uow>>
       ELSE /\ pc' = [pc EXCEPT ![s] = "pending"]
            /\ uow' = [uow EXCEPT ![s] = [w EXCEPT !.op = op, !.seen = v,
                                              !.user = user, !.data = data]]
            /\ result' = [result EXCEPT ![s] = "none"]
            /\ UNCHANGED <<count, score, votes>>
    /\ UNCHANGED <<id, config, commentVars>>

CanCall(s) == s \in sessions /\ pc[s] = "idle" /\ ncalls < MaxCalls

vote(s, user, data) ==
    /\ CanCall(s)
    /\ pattern = RANGE => data # None
    /\ LET v == getvote(user) IN
       Run(s, "vote", user, data, v, VoteWork(user, data, v))

cancelvote(s, user) ==
    /\ CanCall(s)
    /\ LET v == getvote(user) IN
       Run(s, "cancelvote", user, None, v, CancelWork(user, v))

recount(s) ==
    /\ CanCall(s)
    /\ Run(s, "recount", 0, None, None, RecountWork)

\* Two Vote objects for one (user, voteset) pair cannot both be inserted.
Duplicates ==
    \/ \E r \in Rows : votes[r] > 1
    \/ \E r, q \in Rows : r # q /\ r.user = q.user

\* The outcome of flushing unit of work w against the rows in the store.
FlushError(w) ==
    IF w.insert /\ HasRow(w.user) THEN "IntegrityError"
    ELSE IF w.update /\ ~HasRow(w.user) THEN "StaleDataError"
    ELSE ""

\* db.session.commit(): the first commit gives a new VoteSet its id (a null
\* score takes the column default); later commits flush the unit of work.
commit(s) ==
    /\ s \in sessions
    /\ pc[s] = "pending" \/ id = None
    /\ IF id = None
       THEN /\ IF Duplicates
               THEN /\ result' = [result EXCEPT ![s] = "IntegrityError"]
                    /\ UNCHANGED <<id, score>>
               ELSE /\ result' = [result EXCEPT ![s] = "ok"]
                    /\ id' = Some(1)
                    /\ score' = IF score = None THEN Some(0) ELSE score
            /\ UNCHANGED <<count, votes>>
       ELSE /\ IF FlushError(uow[s]) # ""
               THEN /\ result' = [result EXCEPT ![s] = FlushError(uow[s])]
                    /\ UNCHANGED <<count, score, votes>>
               ELSE /\ result' = [result EXCEPT ![s] = "ok"]
                    /\ count' = Val(Eval(uow[s].count, Some(count)))
                    /\ score' = Eval(uow[s].score, score)
                    /\ votes' = RowsAfter(uow[s], uow[s].user, uow[s].data)
            /\ UNCHANGED id
    /\ pc' = [pc EXCEPT ![s] = "idle"]
    /\ uow' = [uow EXCEPT ![s] = NoWork]
    /\ UNCHANGED <<config, ncalls, overlap, commentVars>>

\* ====================================================== comment engine
CommentSets == {1, 2}
Messages    == {"a"}
CommentIds  == 1 .. MaxComments
MaybeUsers  == {None} \cup {Some(u) : u \in Users}
MaybeIds    == {None} \cup {Some(c) : c \in CommentIds}

\* coaster.gfm.markdown: the empty text renders to nothing, any other text
\* to a paragraph around it.
markdown(value) == IF value = "" THEN << >> ELSE <<"<p>", value, "</p>">>

\* Comment.replies: the comments whose reply_to is c.
replies(cs, c) == {d \in DOMAIN cs : cs[d].reply_to = Some(c)}

\* Comment.is_deleted
is_deleted(cs, c) == cs[c].status = DELETED

\* db.session.delete(comment)
session_delete(cs, c) == [d \in (DOMAIN cs) \ {c} |-> cs[d]]

\* Faulty variant: the tombstone keeps its author.
Tombstone_keeps_author(cs, c) ==
    [cs EXCEPT ![c].status = DELETED, ![c].message = "",
               ![c].message_html = markdown("")]

\* The tombstone branch of Comment.delete.
Tombstone(cs, c) ==
    [cs EXCEPT ![c].status = DELETED, ![c].user = None, ![c].message = "",
               ![c].message_html = markdown("")]

\* Faulty variant: the tombstone parent is removed with the comment, whether
\* or not it has other replies, and the collapse stops there.
delete_onelevel(cs, c) ==
    IF Cardinality(replies(cs, c)) > 0 THEN Tombstone(cs, c)
    ELSE IF cs[c].reply_to # None /\ is_deleted(cs, Val(cs[c].reply_to))
    THEN session_delete(session_delete(cs, c), Val(cs[c].reply_to))
    ELSE session_delete(cs, c)

\* Faulty variant: a childless comment is removed without a look at its
\* parent.
delete_nocascade(cs, c) ==
    IF Cardinality(replies(cs, c)) > 0 THEN Tombstone(cs, c)
    ELSE session_delete(cs, c)

\* Comment.delete
RECURSIVE delete(_, _)
delete(cs, c) ==
    IF Cardinality(replies(cs, c)) > 0 THEN Tombstone(cs, c)
    ELSE IF cs[c].reply_to # None /\ is_deleted(cs, Val(cs[c].reply_to))
    THEN delete(session_delete(cs, c), Val(cs[c].reply_to))
    ELSE session_delete(cs, c)

\* The VoteSet of a new comment after comment.votes.vote(g.user, +1): the
\* VoteSet has no id yet, so count = 1 and score = data.
OwnVote(guser) ==
    [count |-> 1, score |-> Some(1), rows |-> {Row(Val(guser), Some(1))}]

\* Comment(user=g.user, commentset=commentset, message=...)
Comment(cs, guser, message) ==
    [commentset |-> cs, user |-> guser, reply_to |-> None,
     message |-> message, message_html |-> markdown(message),
     status |-> StatusDefault, edited_at |-> None, votes |-> OwnVote(guser)]

\* The reply_to a new comment gets: the comment named in the form, when it
\* exists and belongs to the same CommentSet; otherwise none.
ReplyTo(cs, reply_to_id) ==
    IF /\ reply_to_id # None
       /\ Val(reply_to_id) \in DOMAIN comments
       /\ comments[Val(reply_to_id)].commentset = cs
    THEN reply_to_id ELSE None

\* The condition under which the edit branch changes the comment.
MayEdit(c, user, guser) == comments[c].user = guser

\* comment.message = ...; comment.edited_at = datetime.utcnow()
Edited(cs, c, message) ==
    [cs EXCEPT ![c].message = message,
               ![c].message_html = markdown(message),
               ![c].edited_at = Some(clock)]

\* comment_action, edit branch (comment_edit_id given).
EditComment(user, guser, edit_id, message) ==
    IF Val(edit_id) \notin DOMAIN comments
    THEN flashed' = "No such comment" /\ UNCHANGED <<comments, clock>>
    ELSE IF MayEdit(Val(edit_id), user, guser)
    THEN /\ clock < MaxEdits
         /\ clock' = clock + 1
         /\ comments' = Edited(comments, Val(edit_id), message)
         /\ flashed' = "Your comment has been edited"
    ELSE /\ flashed' = "You can only edit your own comments"
         /\ UNCHANGED <<comments, clock>>

\* The comment that the new comment branch adds to the session.
NewComment(cs, guser, reply_to_id, message) ==
    [Comment(cs, guser, message) EXCEPT !.reply_to = ReplyTo(cs, reply_to_id)]

\* comment_action, new comment branch.  vote() reads user.id: it raises
\* AttributeError for an anonymous g.user and nothing is committed.
PostComment(cs, guser, reply_to_id, message) ==
    IF guser = None
    THEN /\ flashed' = "AttributeError"
         /\ UNCHANGED <<comments, commentsets, lastid, clock>>
    ELSE /\ lastid' = lastid + 1
         /\ UNCHANGED clock
         /\ comments' = [c \in DOMAIN comments \cup {lastid + 1} |->
                IF c = lastid + 1
                THEN NewComment(cs, guser, reply_to_id, message)
                ELSE comments[c]]
         /\ commentsets' = [commentsets EXCEPT ![cs].count = @ + 1]
         /\ flashed' = "Your comment has been posted"

\* Commentease.comment_action for a valid POST of the comment form.
comment_action(cs, user, permissions, guser, form) ==
    /\ IF form.comment_edit_id # None
       THEN /\ EditComment(user, guser, form.comment_edit_id, form.message)
            /\ UNCHANGED <<commentsets, lastid>>
       ELSE /\ lastid < MaxComments
            /\ PostComment(cs, guser, form.comment_reply_to_id, form.message)
    /\ removed' = 0
    /\ UNCHANGED <<txn, voteVars>>

\* Comment.delete on a comment of the store, then the commit.
delete_comment(c) ==
    /\ c \in DOMAIN comments
    /\ comments' = delete(comments, c)
    /\ flashed' = "deleted"
    /\ removed' = Cardinality(DOMAIN comments) - Cardinality(DOMAIN comments')
    /\ UNCHANGED <<commentsets, lastid, clock, txn, voteVars>>

\* CommentSet.recount
recount_comments(cs) ==
    /\ LET mine == {c \in DOMAIN comments :
                       comments[c].commentset = cs /\ comments[c].status = PUBLIC}
           toplevel == Cardinality({c \in mine : comments[c].reply_to = None})
           nreplies == Cardinality({c \in mine : comments[c].reply_to # None})
       IN  commentsets' = [commentsets EXCEPT ![cs] =
               [count |-> toplevel + nreplies, count_toplevel |-> toplevel,
                count_replies |-> nreplies]]
    /\ flashed' = "recounted"
    /\ removed' = 0
    /\ UNCHANGED <<comments, lastid, clock, txn, voteVars>>

\* Commentease.vote_action for a valid POST: the branches of both known
\* actions are empty, so the VoteSet is left as it is.
vote_action(user, permissions, action) ==
    /\ flashed' = IF action \in {"vote", "votedown"} THEN "none"
                  ELSE "CommenteaseActionError"
    /\ removed' = 0
    /\ UNCHANGED <<comments, commentsets, lastid, clock, txn, voteVars>>

\* ------------------------------------------- concurrent comment requests
\* What a request leaves in its session until the commit: the Comment rows
\* as the request loaded them (seen) and as it left them in memory (after),
\* the new comment if any, and the value assigned to commentset.count.
NoRequest ==
    [op |-> "none", seen |-> << >>, after |-> << >>, insert |-> << >>,
     cs |-> None, count |-> None]

Idle(s) == s \in sessions /\ txn[s].op = "none"

\* The new comments that wait for their commit.
PendingPosts == Cardinality({s \in sessions : txn[s].insert # << >>})

\* The body of comment_action up to its commit, in the session of worker s.
\* commentset.count += 1 reads the count loaded in this session and assigns
\* the sum as a plain value.
request_comment(s, cs, user, permissions, guser, form) ==
    /\ Idle(s)
    /\ IF form.comment_edit_id # None
       THEN LET c == Val(form.comment_edit_id)
            IN  IF c \notin DOMAIN comments
                THEN flashed' = "No such comment" /\ UNCHANGED <<txn, clock>>
                ELSE IF MayEdit(c, user, guser)
                THEN /\ clock < MaxEdits
                     /\ clock' = clock + 1
                     /\ txn' = [txn EXCEPT ![s] = [NoRequest EXCEPT
                            !.op = "edit", !.seen = comments,
                            !.after = Edited(comments, c, form.message)]]
                     /\ flashed' = "Your comment has been edited"
                ELSE /\ flashed' = "You can only edit your own comments"
                     /\ UNCHANGED <<txn, clock>>
       ELSE /\ lastid + PendingPosts < MaxComments
            /\ UNCHANGED clock
            /\ IF guser = None
               THEN flashed' = "AttributeError" /\ UNCHANGED txn
               ELSE /\ txn' = [txn EXCEPT ![s] = [NoRequest EXCEPT
                           !.op = "post",
                           !.insert = <<NewComment(cs, guser,
                               form.comment_reply_to_id, form.message)>>,
                           !.cs = Some(cs),
                           !.count = Some(commentsets[cs].count + 1)]]
                    /\ flashed' = "Your comment has been posted"
    /\ removed' = 0
    /\ UNCHANGED <<comments, commentsets, lastid, voteVars>>

\* Comment.delete in the session of worker s, on the rows it loads.
request_delete(s, c) ==
    /\ Idle(s)
    /\ c \in DOMAIN comments
    /\ txn' = [txn EXCEPT ![s] = [NoRequest EXCEPT
           !.op = "delete", !.seen = comments, !.after = delete(comments, c)]]
    /\ flashed' = "none"
    /\ removed' = 0
    /\ UNCHANGED <<comments, commentsets, lastid, clock, voteVars>>

\* The rows a request deleted, and the rows it changed, in its session.
Gone(w)    == (DOMAIN w.seen) \ (DOMAIN w.after)
Changed(w) == {d \in DOMAIN w.after : w.after[d] # w.seen[d]}

\* UPDATE sets the attributes the request changed, on the row as it is now.
Merge(cur, old, new) ==
    [f \in DOMAIN cur |-> IF new[f] # old[f] THEN new[f] ELSE cur[f]]

\* The Comment rows after the flush of request w.
Flushed(w) ==
    LET kept == (DOMAIN comments) \ Gone(w)
        new  == IF w.insert # << >> THEN {lastid + 1} ELSE {}
    IN  [d \in kept \cup new |->
            IF d \in new THEN w.insert[1]
            ELSE IF d \in Changed(w) THEN Merge(comments[d], w.seen[d], w.after[d])
            ELSE comments[d]]

\* The outcome of the flush of request w: an UPDATE that finds no row, or a
\* reply_to (foreign key comment.id) left without its comment.
CommitError(w) ==
    IF ~(Changed(w) \subseteq DOMAIN comments) THEN "StaleDataError"
    ELSE IF \E d \in DOMAIN Flushed(w) :
               /\ Flushed(w)[d].reply_to # None
               /\ Val(Flushed(w)[d].reply_to) \notin DOMAIN Flushed(w)
    THEN "IntegrityError"
    ELSE ""

\* db.session.commit() of the request of worker s.
commit_request(s) ==
    /\ s \in sessions
    /\ txn[s].op # "none"
    /\ IF CommitError(txn[s]) # ""
       THEN /\ flashed' = CommitError(txn[s])
            /\ removed' = 0
            /\ UNCHANGED <<comments, commentsets, lastid>>
       ELSE /\ comments' = Flushed(txn[s])
            /\ lastid' = lastid + Len(txn[s].insert)
            /\ commentsets' =
                  IF txn[s].count = None THEN commentsets
                  ELSE [commentsets EXCEPT
                           ![Val(txn[s].cs)].count = Val(txn[s].count)]
            /\ flashed' = "committed"
            /\ removed' = Cardinality((DOMAIN comments) \cap Gone(txn[s]))
    /\ txn' = [txn EXCEPT ![s] = NoRequest]
    /\ UNCHANGED <<clock, voteVars>>

\* CommentSet.__init__: all three counters 0, no comments.
InitCommentSets ==
    /\ comments = << >>
    /\ commentsets = [cs \in CommentSets |->
           [count |-> 0, count_toplevel |-> 0, count_replies |-> 0]]
    /\ lastid = 0
    /\ clock = 0
    /\ flashed = "none"
    /\ removed = 0
    /\ txn = [s \in Workers |-> NoRequest]

\* ------------------------------------------------------ specifications
\* VoteSet.__init__: count = score = 0, no votes.
InitVoteSet ==
    /\ pattern \in Patterns
    /\ min = 1
    /\ max = 2
    /\ count = 0
    /\ score = Some(0)
    /\ votes = EmptyBag
    /\ pc = [s \in Workers |-> "idle"]
    /\ uow = [s \in Workers |-> NoWork]
    /\ result = [s \in Workers |-> "none"]
    /\ ncalls = 0
    /\ overlap = FALSE

\* One session: calls follow one another.
Init ==
    /\ InitVoteSet
    /\ InitCommentSets
    /\ id \in {None, Some(1)}
    /\ sessions = {"w1"}

\* Two sessions on a VoteSet that is in the store.
InitConcurrent ==
    /\ InitVoteSet
    /\ InitCommentSets
    /\ id = Some(1)
    /\ sessions = Workers

Next ==
    \/ \E s \in Workers, user \in Users, data \in VoteData : vote(s, user, data)
    \/ \E s \in Workers, user \in Users : cancelvote(s, user)
    \/ \E s \in Workers : recount(s)
    \/ \E s \in Workers : commit(s)

Spec == Init /\ [][Next]_vars

SpecConcurrent == InitConcurrent /\ [][Next]_vars

\* The handlers and Comment.delete on the comments of two CommentSets, one
\* request after the other; the VoteSet of the voting engine stands by.
InitComments ==
    /\ InitVoteSet
    /\ pattern = UP_DOWN
    /\ id = Some(1)
    /\ sessions = {"w1"}
    /\ InitCommentSets

Permissions == {{}, {"comment", "vote"}}

\* The valid posts of the comment form: an edit of a comment, or a new
\* comment with or without a comment to reply to.
Forms ==
    [comment_edit_id : {Some(c) : c \in CommentIds},
     comment_reply_to_id : {None}, message : Messages]
    \cup [comment_edit_id : {None}, comment_reply_to_id : MaybeIds,
          message : Messages]
Actions     == {"vote", "votedown", "voteup"}

NextComments ==
    \/ \E cs \in CommentSets, user \in MaybeUsers, permissions \in Permissions,
          guser \in MaybeUsers, form \in Forms :
          comment_action(cs, user, permissions, guser, form)
    \/ \E c \in CommentIds : delete_comment(c)
    \/ \E cs \in CommentSets : recount_comments(cs)
    \/ \E user \in MaybeUsers, permissions \in Permissions, action \in Actions :
          vote_action(user, permissions, action)

SpecComments == InitComments /\ [][NextComments]_vars

\* Two workers serve comment requests on the same store: each request runs
\* in its own session and commits later.
InitCommentsConcurrent ==
    /\ InitVoteSet
    /\ pattern = UP_DOWN
    /\ id = Some(1)
    /\ sessions = Workers
    /\ InitCommentSets

\* The posts of the comment form that ask for a new comment.
PostForms == {form \in Forms : form.comment_edit_id = None}

NextCommentsConcurrent ==
    \/ \E s \in Workers, cs \in CommentSets, user \in MaybeUsers,
          permissions \in Permissions, guser \in MaybeUsers,
          form \in PostForms :
          request_comment(s, cs, user, permissions, guser, form)
    \/ \E s \in Workers, c \in CommentIds : request_delete(s, c)
    \/ \E s \in Workers : commit_request(s)

SpecCommentsConcurrent == InitCommentsConcurrent /\ [][NextCommentsConcurrent]_vars

\* ================================================================ claims
AllIdle == \A s \in sessions : pc[s] = "idle"

\* The step in which session s commits the unit of work of a call to op.
Commits(s, op) == pc[s] = "pending" /\ pc'[s] = "idle" /\ uow[s].op = op

\* The same, the call having been op(user, data) and its lookup having seen v.
CommitsCall(s, op, user, data, v) ==
    /\ Commits(s, op)
    /\ uow[s].user = user
    /\ uow[s].data = data
    /\ uow[s].seen = v

\* Session s has run op and its unit of work awaits the commit.
Pending(s, op) == pc[s] = "pending" /\ uow[s].op = op

\* Both sessions made one call each, both committed, and two rows exist: the
\* two calls were first votes of two distinct voters on the empty VoteSet.
TwoFirstVotesDone ==
    /\ pattern = UP_DOWN
    /\ ncalls = 2
    /\ \A s \in sessions : pc[s] = "idle" /\ result[s] = "ok"
    /\ NumVotes = 2

\* C1: two distinct voters casting their first votes concurrently on an
\* empty UP_DOWN VoteSet end, under every interleaving, with count = 2 and
\* score = the sum of the two votes' data.
C1_ConcurrentFirstVotes ==
    TwoFirstVotesDone => count = 2 /\ score = Some(SumData)

\* The two votes overlapped: the second was cast before the first committed.
C1_Witness == TwoFirstVotesDone /\ overlap /\ count = 2

\* C2: whenever no call is in progress, count equals the number of Vote
\* records of the VoteSet, whether or not the VoteSet has an id.
C2_CountEqualsRecords == AllIdle => count = NumVotes

\* C3: when one voter's two first votes race, one Vote row results and
\* neither call ends in a fatal error (the duplicate insert is absorbed).
C3_DuplicateInsertAbsorbed ==
    /\ ~Duplicates
    /\ \A s \in sessions : result[s] # "IntegrityError"

\* C4: a vote by a voter whose existing row holds the same data changes
\* neither count, score nor the rows, for every pattern.
C4_SameValueRevoteNoop ==
    [][\A s \in sessions :
         (/\ Commits(s, "vote")
          /\ uow[s].seen # None
          /\ Val(uow[s].seen).data = uow[s].data)
         => /\ count' = count
            /\ score' = score
            /\ votes' = votes
            /\ result'[s] = "ok"]_vars

C4_Witness ==
    \E s \in sessions :
        /\ Pending(s, "vote")
        /\ uow[s].seen # None
        /\ Val(uow[s].seen).data = uow[s].data
        /\ getvote(uow[s].user) = uow[s].seen

\* C5: under UP_DOWN a revote with the opposite value d changes score by
\* 2 * d, leaves count alone and stores d as the voter's data.
C5_UpDownFlip ==
    [][\A s \in sessions, user \in Users, d \in {1, 0 - 1} :
         (/\ pattern = UP_DOWN
          /\ CommitsCall(s, "vote", user, Some(d), Some(Row(user, Some(0 - d)))))
         => /\ score' = Some(Val(score) + 2 * d)
            /\ count' = count
            /\ NumVotes' = NumVotes
            /\ getvote(user)' = Some(Row(user, Some(d)))]_vars

C5_Witness ==
    \E s \in sessions :
        /\ Pending(s, "vote")
        /\ pattern = UP_DOWN
        /\ uow[s].seen # None
        /\ Val(uow[s].seen).data = Some(1)
        /\ uow[s].data = Some(0 - 1)

\* C6: under RANGE a vote raises the out-of-range error exactly when its
\* data lies outside [min, max].
C6_RangeCheck ==
    [][\A s \in sessions, user \in Users, data \in VoteData \ {None} :
         (pattern = RANGE /\ vote(s, user, data))
         => ((result'[s] = "ValueError")
             <=> ~(min <= Val(data) /\ Val(data) <= max))]_vars

\* C7: cancelvote by a voter who has a row removes the row (a following
\* getvote finds none), lowers count by one and takes the voter's
\* contribution out of score: 1 under UP_ONLY, the stored data under UP_DOWN
\* and RANGE, nothing under CUSTOM.
C7_CancelReverses ==
    [][\A s \in sessions, user \in Users, old \in VoteData :
         CommitsCall(s, "cancelvote", user, None, Some(Row(user, old)))
         => /\ getvote(user)' = None
            /\ count' = count - 1
            /\ NumVotes' = NumVotes - 1
            /\ score' = CASE pattern = UP_ONLY -> Some(Val(score) - 1)
                          [] pattern \in {UP_DOWN, RANGE} ->
                                Some(Val(score) - Val(old))
                          [] pattern = CUSTOM -> score]_vars

C7_Witness ==
    \E s \in sessions :
        /\ Pending(s, "cancelvote")
        /\ uow[s].seen # None
        /\ pattern \in {UP_DOWN, RANGE}
        /\ Val(Val(uow[s].seen).data) # 0

\* C8: under UP_ONLY a voter's first vote (null data) raises count by one
\* and score by one, on a VoteSet with or without id; a second vote changes
\* nothing; a vote with data raises an error.
C8_UpOnly ==
    [][\A s \in sessions, user \in Users :
         /\ (pattern = UP_ONLY /\ id = None /\ NumVotes = 0
               /\ vote(s, user, None))
            => count' = count + 1 /\ score' = Some(Val(score) + 1)
         /\ (pattern = UP_ONLY /\ Commits(s, "vote") /\ uow[s].seen = None)
            => count' = count + 1 /\ score' = Some(Val(score) + 1)
         /\ (pattern = UP_ONLY /\ Commits(s, "vote") /\ uow[s].seen # None)
            => UNCHANGED <<count, score, votes>>
         /\ \A data \in VoteData \ {None} :
               (pattern = UP_ONLY /\ vote(s, user, data))
               => result'[s] = "ValueError"]_vars

C10_RecountRoundTrip ==
    [][\A s \in sessions :
         /\ (id # None /\ recount(s)) => result'[s] # "TypeError"
         /\ Commits(s, "recount") => count' = count /\ score' = score]_vars

\* ------------------------------------------------------- comment claims
\* The comments of the store that are in CommentSet cs.
CommentsOf(cs) == {c \in DOMAIN comments : comments[c].commentset = cs}

\* C11: deleting a comment that has at least one reply turns it into a
\* tombstone: its status becomes DELETED, its author null and its message
\* empty, while the comment, its id, its reply_to link, its CommentSet and
\* every reply of it stay in the store, and no other comment changes.
C11_DeleteWithReplies ==
    [][\A c \in CommentIds :
         (delete_comment(c) /\ replies(comments, c) # {}) =>
            /\ DOMAIN comments' = DOMAIN comments
            /\ comments'[c].status = DELETED
            /\ comments'[c].user = None
            /\ comments'[c].message = ""
            /\ comments'[c].reply_to = comments[c].reply_to
            /\ comments'[c].commentset = comments[c].commentset
            /\ replies(comments', c) = replies(comments, c)
            /\ \A d \in (DOMAIN comments) \ {c} : comments'[d] = comments[d]]_vars

\* A comment that had an author was deleted while it had a reply: it is in
\* the store as a tombstone, together with its reply.
C11_Witness ==
    /\ flashed = "deleted"
    /\ removed = 0
    /\ \E c \in DOMAIN comments :
          /\ is_deleted(comments, c)
          /\ comments[c].votes.count = 1
          /\ replies(comments, c) # {}

\* The comments that the collapse started by removing c takes away: c, and
\* going up, each tombstone whose only reply is the comment removed below it.
RECURSIVE Collapsed(_, _)
Collapsed(cs, c) ==
    LET p == cs[c].reply_to
    IN  IF p # None /\ is_deleted(cs, Val(p)) /\ replies(cs, Val(p)) = {c}
        THEN {c} \cup Collapsed(cs, Val(p))
        ELSE {c}

\* C12: deleting a childless comment whose parent is a tombstone removes
\* the comment and, going up, every tombstone that loses its last reply by
\* it, and nothing else: the collapse stops at the first ancestor that is
\* not a tombstone or has another reply; every comment that stays keeps its
\* status, its reply_to link and its CommentSet.
C12_Collapse ==
    [][\A c \in CommentIds :
         (/\ delete_comment(c)
          /\ replies(comments, c) = {}
          /\ comments[c].reply_to # None
          /\ is_deleted(comments, Val(comments[c].reply_to))) =>
            /\ DOMAIN comments' = (DOMAIN comments) \ Collapsed(comments, c)
            /\ \A d \in DOMAIN comments' :
                  /\ comments'[d].status = comments[d].status
                  /\ comments'[d].reply_to = comments[d].reply_to
                  /\ comments'[d].commentset = comments[d].commentset]_vars

\* One delete has removed a chain of three comments: the childless comment,
\* its tombstone parent and the tombstone above it.
C12_Witness == flashed = "deleted" /\ removed >= 3

Toplevel(cs) == {c \in CommentsOf(cs) : comments[c].reply_to = None}
Replies(cs)  == {c \in CommentsOf(cs) : comments[c].reply_to # None}

\* C13: when a delete removes comments from the store, each counter of a
\* CommentSet that agreed with the comments of the set before the delete
\* agrees with the remaining comments after it: count with their number,
\* count_toplevel with those without reply_to, count_replies with the rest.
C13_DeleteDecrements ==
    [][\A c \in CommentIds :
         (delete_comment(c) /\ removed' > 0) =>
            \A cs \in CommentSets :
               /\ commentsets[cs].count = Cardinality(CommentsOf(cs)) =>
                     commentsets'[cs].count = Cardinality(CommentsOf(cs)')
               /\ commentsets[cs].count_toplevel = Cardinality(Toplevel(cs)) =>
                     commentsets'[cs].count_toplevel =
                        Cardinality(Toplevel(cs)')
               /\ commentsets[cs].count_replies = Cardinality(Replies(cs)) =>
                     commentsets'[cs].count_replies =
                        Cardinality(Replies(cs)')]_vars

\* C14: no tombstone of the store is without a reply.
C14_NoChildlessTombstone ==
    \A c \in DOMAIN comments :
        is_deleted(comments, c) => replies(comments, c) # {}

\* Comments were posted, one was edited, and a delete has just removed a
\* reply of a tombstone that has another reply left.
C14_Witness ==
    /\ clock >= 1
    /\ flashed = "deleted"
    /\ removed = 1
    /\ \E c \in DOMAIN comments : is_deleted(comments, c)

\* C15: in every state, for each CommentSet, count = count_toplevel +
\* count_replies, count_toplevel is the number of its PUBLIC comments without
\* reply_to and count_replies the number of its PUBLIC comments with one.
C15_CountersConsistent ==
    \A cs \in CommentSets :
        /\ commentsets[cs].count =
              commentsets[cs].count_toplevel + commentsets[cs].count_replies
        /\ commentsets[cs].count_toplevel =
              Cardinality({c \in Toplevel(cs) : comments[c].status = PUBLIC})
        /\ commentsets[cs].count_replies =
              Cardinality({c \in Replies(cs) : comments[c].status = PUBLIC})

\* C16: posting a comment whose form names, as the comment to reply to, a
\* comment of another CommentSet fails: the call does not report a posted
\* comment, adds no comment and changes no counter.
C16_ForeignReplyFails ==
    [][\A cs \in CommentSets, user \in MaybeUsers, permissions \in Permissions,
          guser \in MaybeUsers, form \in Forms :
         (/\ comment_action(cs, user, permissions, guser, form)
          /\ form.comment_edit_id = None
          /\ form.comment_reply_to_id # None
          /\ Val(form.comment_reply_to_id) \in DOMAIN comments
          /\ comments[Val(form.comment_reply_to_id)].commentset # cs) =>
            /\ flashed' # "Your comment has been posted"
            /\ comments' = comments
            /\ commentsets' = commentsets]_vars

\* C17: an edit of a comment of the store succeeds exactly when the user
\* passed to comment_action is the comment's author: then the message is
\* replaced, rendered again, and edited_at is set; for any other user the
\* call reports that it is not allowed and leaves message, message_html and
\* edited_at as they were.
C17_EditByAuthorOnly ==
    [][\A cs \in CommentSets, user \in MaybeUsers, permissions \in Permissions,
          guser \in MaybeUsers, form \in Forms :
         (/\ comment_action(cs, user, permissions, guser, form)
          /\ form.comment_edit_id # None
          /\ Val(form.comment_edit_id) \in DOMAIN comments) =>
            LET c == Val(form.comment_edit_id)
            IN  IF comments[c].user = user
                THEN /\ comments'[c].message = form.message
                     /\ comments'[c].message_html = markdown(form.message)
                     /\ comments'[c].edited_at = Some(clock)
                ELSE /\ flashed' = "You can only edit your own comments"
                     /\ comments'[c].message = comments[c].message
                     /\ comments'[c].message_html = comments[c].message_html
                     /\ comments'[c].edited_at = comments[c].edited_at]_vars

\* C18: vote_action with action 'vote' or 'votedown' records the vote of the
\* user passed to it in the VoteSet (+1 or -1 on the UP_DOWN VoteSet); with
\* any other action it raises the unknown-action error and changes neither
\* the VoteSet nor the comments.
C18_VoteActionVotes ==
    [][\A user \in MaybeUsers, permissions \in Permissions, action \in Actions :
         vote_action(user, permissions, action) =>
            IF action \in {"vote", "votedown"}
            THEN user # None =>
                    \E r \in BagToSet(votes') :
                       /\ r.user = Val(user)
                       /\ r.data = Some(IF action = "vote" THEN 1 ELSE -1)
            ELSE /\ flashed' = "CommenteaseActionError"
                 /\ UNCHANGED <<votes, count, score, comments, commentsets>>]_vars

\* C19: a call of comment_action or vote_action for which the permission
\* checker gave no capability at all changes nothing in the store: no
\* comment is added or edited, no vote recorded, no counter changed.
C19_PermissionGate ==
    [][\A cs \in CommentSets, user \in MaybeUsers, guser \in MaybeUsers,
          form \in Forms, action \in Actions :
         (\/ comment_action(cs, user, {}, guser, form)
          \/ vote_action(user, {}, action)) =>
            UNCHANGED <<comments, commentsets, votes, count, score>>]_vars

\* C20: a tombstone (status DELETED, no author, empty message) that is
\* still in the store after a step is still a tombstone: same status, no
\* author, empty message.
C20_TombstoneStays ==
    [][\A c \in DOMAIN comments :
         (/\ is_deleted(comments, c)
          /\ comments[c].user = None
          /\ comments[c].message = ""
          /\ c \in DOMAIN comments') =>
            /\ comments'[c].status = DELETED
            /\ comments'[c].user = None
            /\ comments'[c].message = ""]_vars

\* --------------------------------------------- concurrent comment claims
\* Worker s commits the request op, and the flush goes through.
CommitsRequest(s, op) ==
    commit_request(s) /\ txn[s].op = op /\ CommitError(txn[s]) = ""

\* C21: every committed creation of a comment raises the stored count of
\* its CommentSet by exactly one, whatever other creations commit between
\* its start and its commit: two concurrent creations raise it by two.
C21_ConcurrentPosts ==
    [][\A s \in Workers :
         CommitsRequest(s, "post") =>
            commentsets'[Val(txn[s].cs)].count =
               commentsets[Val(txn[s].cs)].count + 1]_vars
\* C22: on a stored UP_DOWN or RANGE VoteSet, a committed vote or cancelvote
\* keeps score equal to the sum of data over the Vote rows and count
\* non-negative, whatever the other session committed since the call read
\* the voter's row, the same voter's revote or cancel included.
C22_SameVoterRace ==
    [][\A s \in sessions :
         (/\ pattern \in {UP_DOWN, RANGE}
          /\ Commits(s, "vote") \/ Commits(s, "cancelvote")
          /\ score = Some(SumData)
          /\ count >= 0) =>
            (score' = Some(SumData') /\ count' >= 0)]_vars
\* In the rows cs, comment c is a childless reply of a tombstone that has
\* exactly two replies, both childless.
OneOfLastTwo(cs, c) ==
    /\ c \in DOMAIN cs
    /\ cs[c].reply_to # None
    /\ is_deleted(cs, Val(cs[c].reply_to))
    /\ Cardinality(replies(cs, Val(cs[c].reply_to))) = 2
    /\ \A d \in replies(cs, Val(cs[c].reply_to)) : replies(cs, d) = {}

\* C23: when the delete of one of the last two childless replies of a
\* tombstone commits after a concurrent delete has removed the other one
\* (the request had read both replies), the tombstone leaves the store with
\* it: no tombstone without replies is left.
C23_LastTwoReplies ==
    [][\A s \in Workers, c \in CommentIds :
         (/\ CommitsRequest(s, "delete")
          /\ c \in Gone(txn[s])
          /\ OneOfLastTwo(txn[s].seen, c)
          /\ c \in DOMAIN comments
          /\ Val(comments[c].reply_to) \in DOMAIN comments
          /\ replies(comments, Val(comments[c].reply_to)) = {c}) =>
            Val(comments[c].reply_to) \notin DOMAIN comments']_vars
====
